---- MODULE Spec2Model ----
(***************************************************************************)
(* scenario_forge: the Scenario graph assembler (scenario.py), the         *)
(* integrity hasher (crypto.py) and the primitives they store              *)
(* (primitives.py), as a state machine over one Scenario and a second,     *)
(* identically constructed Scenario used to compare integrity hashes; and  *)
(* the Transaction constructor and the six motifs (motifs.py) as calls     *)
(* whose arguments are drawn from bounded sets.                            *)
(***************************************************************************)
EXTENDS Integers, Sequences, FiniteSets, TLC

VARIABLES
    scenario,      \* the Scenario object: graph, entity_roles, aml_weaknesses, scenario_hash
    twin,          \* a second Scenario constructed with the same arguments
    result,        \* outcome of the last call on scenario: returned or raised, and its value
    calls,         \* number of add_transactions calls made on scenario so far
    pre,           \* scenario as it was when the last add_transactions call began
    merged,        \* transactions for which add_edge has run on scenario
    first_attr,    \* address -> node attributes given by the first add_node of that address
    last_role,     \* address -> role of the latest returned merge whose mapping held it
    first_seen,    \* weakness labels of returned merges, in order of first appearance
    all_returned,  \* TRUE while no add_transactions call on scenario has raised
    relation,      \* how twin's merges relate to scenario's merges so far
    hash_seed,     \* the str hash seed of the process, which orders the elements of a set
    args,          \* arguments of the call on a primitive or a motif
    output         \* outcome of that call: not made yet, raised, or the value returned

vars == <<scenario, twin, result, calls, pre, merged, first_attr, last_role,
          first_seen, all_returned, relation, hash_seed, args, output>>

(***************************************************************************)
(* Bounds of the model.                                                    *)
(***************************************************************************)
MaxMerges == 3
MaxTwinMerges == 2

(***************************************************************************)
(* Strings and their order.  Python compares str by code point; StrOrder   *)
(* lists every string the model sorts, in that order.                      *)
(***************************************************************************)
StrOrder ==
    << "0xa", "0xb", "0xc",
       "Small amount thresholds bypass", "Temporal pattern obfuscation",
       "Transaction clustering gaps",
       "tx1", "tx2", "tx3" >>

StrRank(s) == CHOOSE i \in 1..Len(StrOrder) : StrOrder[i] = s

\* The weakness labels of the Peel Chain motif.
Labels ==
    {"Transaction clustering gaps", "Small amount thresholds bypass",
     "Temporal pattern obfuscation"}
Chains == {"Ethereum", "Polygon"}

(***************************************************************************)
(* Decimal: coefficient and exponent (value = coef * 10^exp, exp <= 0).    *)
(***************************************************************************)
Dec(c, e) == [coef |-> c, exp |-> e]

DigitChars == <<"0", "1", "2", "3", "4", "5", "6", "7", "8", "9">>

RECURSIVE Pow10(_)
Pow10(k) == IF k = 0 THEN 1 ELSE 10 * Pow10(k - 1)

RECURSIVE NatStr(_)
NatStr(n) ==
    IF n < 10 THEN <<DigitChars[n + 1]>>
    ELSE NatStr(n \div 10) \o <<DigitChars[(n % 10) + 1]>>

RECURSIVE FracStr(_, _)
FracStr(n, k) ==
    IF k = 0 THEN <<>>
    ELSE FracStr(n \div 10, k - 1) \o <<DigitChars[(n % 10) + 1]>>

\* str(Decimal) of a positive Decimal with exponent <= 0: the digits of the
\* coefficient with the point placed by the exponent ("3", "3.0", "0.30").
DecimalStr(d) ==
    IF d.exp = 0 THEN NatStr(d.coef)
    ELSE NatStr(d.coef \div Pow10(-d.exp)) \o <<".">>
         \o FracStr(d.coef % Pow10(-d.exp), -d.exp)

\* Decimal comparison with zero, as __post_init__ uses it.
DecimalSign(d) == IF d.coef > 0 THEN 1 ELSE IF d.coef < 0 THEN -1 ELSE 0

\* Decimal addition: exact, at the smaller of the two exponents.
DecAdd(a, b) ==
    LET e == IF a.exp < b.exp THEN a.exp ELSE b.exp
    IN Dec(a.coef * Pow10(a.exp - e) + b.coef * Pow10(b.exp - e), e)

\* Decimal multiplication: exact.
DecMul(a, b) == Dec(a.coef * b.coef, a.exp + b.exp)

\* Decimal subtraction: exact, at the smaller of the two exponents.
DecSub(a, b) == DecAdd(a, Dec(-b.coef, b.exp))

\* a / Decimal(n) for an int n # 0 and a quotient with finitely many
\* digits: the quotient at the exponent of a when that is exact, and with
\* as many more digits as it takes otherwise (9 / 2 = 4.5, 9.0 / 3 = 3.0).
RECURSIVE DivDigits(_, _, _)
DivDigits(c, n, e) ==
    IF c % n = 0 THEN Dec(c \div n, e) ELSE DivDigits(c * 10, n, e - 1)
DecDiv(a, n) ==
    IF n > 0 THEN DivDigits(a.coef, n, a.exp)
    ELSE LET q == DivDigits(a.coef, -n, a.exp) IN Dec(-q.coef, q.exp)

\* Decimal equality: of values, whatever the exponents.
DecEq(a, b) == DecSub(a, b).coef = 0

\* round(n / d, 0) of Python: to the nearest integer, a tie to the even one.
RoundHalfEven(n, d) ==
    LET q == n \div d
        r == n % d
    IN IF 2 * r < d THEN q
       ELSE IF 2 * r > d THEN q + 1
       ELSE IF q % 2 = 0 THEN q ELSE q + 1

(***************************************************************************)
(* Timestamps.  A datetime is a whole number of hours; a Transaction is a  *)
(* dataclass and checks no field type, so its timestamp can also be a      *)
(* value that is no datetime (kind "str").  A datetime is naive, as        *)
(* datetime.now() is (kind "datetime"), or carries a UTC offset, as        *)
(* datetime.now(timezone.utc) does (kind "aware").                         *)
(***************************************************************************)
DateTime(h) == [kind |-> "datetime", hours |-> h]
AwareDateTime(h) == [kind |-> "aware", hours |-> h]
NotADateTime == [kind |-> "str", hours |-> 0]

\* a naive datetime
IsDateTime(ts) == ts.kind = "datetime"

\* the values that have an isoformat() method
HasIsoformat(ts) == ts.kind \in {"datetime", "aware"}

\* datetime.isoformat(): date part, "T", time part, and the offset of an
\* aware datetime.
Isoformat(ts) ==
    <<ts.hours \div 24, "T", ts.hours % 24>>
    \o (IF ts.kind = "aware" THEN <<"+00:00">> ELSE <<>>)

(***************************************************************************)
(* Primitives (primitives.py).                                             *)
(***************************************************************************)
Wallet(a, c) == [address |-> a, chain |-> c]

Asset(sym, c) == [symbol |-> sym, chain |-> c]

\* Mutant of PostInitOk: amount and fee are checked, the chains are not.
PostInitOkAmountsOnly(t) ==
    /\ ~(DecimalSign(t.amount) <= 0)
    /\ ~(DecimalSign(t.fee) < 0)

\* Mutant of PostInitOk: the check of the to-wallet's chain is left out.
PostInitOkWithoutToChain(t) ==
    /\ ~(DecimalSign(t.amount) <= 0)
    /\ ~(DecimalSign(t.fee) < 0)
    /\ ~(t.from_wallet.chain # t.asset.chain)

\* Transaction.__post_init__: TRUE iff construction succeeds.
PostInitOk(t) ==
    /\ ~(DecimalSign(t.amount) <= 0)
    /\ ~(DecimalSign(t.fee) < 0)
    /\ ~(t.from_wallet.chain # t.asset.chain)
    /\ ~(t.to_wallet.chain # t.asset.chain)

Tx(id, from, to, asset, amount, fee, ts) ==
    [tx_id |-> id, from_wallet |-> from, to_wallet |-> to, asset |-> asset,
     amount |-> amount, fee |-> fee, timestamp |-> ts]

(***************************************************************************)
(* Python dict: key/value pairs in insertion order, keys unique.           *)
(***************************************************************************)
KV(k, v) == [k |-> k, v |-> v]

DictKeys(d) == {d[i].k : i \in 1..Len(d)}

DictGet(d, key, default) ==
    IF key \in DictKeys(d)
    THEN d[CHOOSE i \in 1..Len(d) : d[i].k = key].v
    ELSE default

\* Mutant of DictSet: dict.setdefault, an existing key keeps its value.
DictSetDefault(d, key, val) ==
    IF key \in DictKeys(d) THEN d ELSE Append(d, KV(key, val))

DictSet(d, key, val) ==
    IF key \in DictKeys(d)
    THEN [i \in 1..Len(d) |-> IF d[i].k = key THEN KV(key, val) ELSE d[i]]
    ELSE Append(d, KV(key, val))

RECURSIVE DictUpdate(_, _)
DictUpdate(d, other) ==
    IF other = <<>> THEN d
    ELSE DictUpdate(DictSet(d, Head(other).k, Head(other).v), Tail(other))

(***************************************************************************)
(* Sorting: list.sort and sorted are stable.  The elements are given with  *)
(* their sort key's rank, [rank, item]; SortedInsert puts x after every    *)
(* element of the sorted s whose rank is not greater than x's.             *)
(***************************************************************************)
RECURSIVE SortedInsert(_, _)
SortedInsert(x, s) ==
    IF s = <<>> THEN <<x>>
    ELSE IF x.rank < Head(s).rank THEN <<x>> \o s
    ELSE <<Head(s)>> \o SortedInsert(x, Tail(s))

RECURSIVE StableSort(_)
StableSort(s) ==
    IF s = <<>> THEN <<>>
    ELSE SortedInsert(s[Len(s)], StableSort(SubSeq(s, 1, Len(s) - 1)))

Items(s) == [i \in 1..Len(s) |-> s[i].item]

(***************************************************************************)
(* networkx.DiGraph as add_transactions uses it: nodes in insertion order, *)
(* one attribute record per node, the successors of each node in insertion *)
(* order and ONE data record per ordered pair (u, v).                      *)
(***************************************************************************)
EmptyGraph == [node |-> <<>>, attr |-> <<>>, adj |-> <<>>, data |-> <<>>]

\* DiGraph.add_node(n, **attr): a new node is appended; for a node already
\* present the given attributes overwrite the stored ones.
add_node(g, n, a) ==
    IF n \in DOMAIN g.attr
    THEN [g EXCEPT !.attr[n] = a]
    ELSE [g EXCEPT !.node = Append(@, n),
                   !.attr = @ @@ (n :> a),
                   !.adj = @ @@ (n :> <<>>)]

\* DiGraph.add_edge(u, v, **attr) with u and v already nodes: a new pair is
\* appended to u's successors; for a pair already present the given
\* attributes overwrite the stored ones.
add_edge(g, u, v, d) ==
    IF <<u, v>> \in DOMAIN g.data
    THEN [g EXCEPT !.data[<<u, v>>] = d]
    ELSE [g EXCEPT !.adj[u] = Append(@, v),
                   !.data = @ @@ (<<u, v>> :> d)]

number_of_nodes(g) == Len(g.node)

\* DiGraph.edges(data=True): for each node in insertion order, its
\* successors in insertion order.
RECURSIVE EdgesFrom(_, _)
EdgesFrom(g, i) ==
    IF i > Len(g.node) THEN <<>>
    ELSE LET u == g.node[i]
         IN [j \in 1..Len(g.adj[u]) |->
                [from |-> u, to |-> g.adj[u][j], data |-> g.data[<<u, g.adj[u][j]>>]]]
            \o EdgesFrom(g, i + 1)

edges(g) == EdgesFrom(g, 1)

(***************************************************************************)
(* Scenario (scenario.py).                                                 *)
(***************************************************************************)
\* Scenario.__init__ with every argument given.
NewScenario(id, intent, jurisdictions, motifs, created) ==
    [scenario_id |-> id,
     intent |-> intent,
     jurisdiction_assumptions |-> jurisdictions,
     motifs_used |-> motifs,
     created_at |-> created,
     transaction_graph |-> EmptyGraph,
     entity_roles |-> <<>>,
     aml_weaknesses |-> <<>>,
     scenario_hash |-> <<>>]       \* None; <<h>> once a hash is stored

\* A role value json.dumps cannot encode (an Enum member given as a role).
NonJsonRole == "<Role.SOURCE>"

\* json.dumps raises TypeError on a value it cannot encode.
JsonSerialisable(data) ==
    \A i \in 1..Len(data.entity_roles) : data.entity_roles[i].v # NonJsonRole

\* Mutant of JsonDumps: sort_keys left out, dicts keep their insertion order.
JsonDumpsUnsorted(data) == data

\* json.dumps(data, sort_keys=True, separators=(',', ':')): the keys of every
\* dict in sorted order; lists keep their order.
JsonDumps(data) ==
    [data EXCEPT !.entity_roles =
        Items(StableSort([i \in 1..Len(@) |-> [rank |-> StrRank(@[i].k), item |-> @[i]]]))]

\* crypto.compute_scenario_hash: the digest of the canonical JSON text, taken
\* as injective on that text.
compute_scenario_hash(data) == <<"sha256", JsonDumps(data)>>

\* Mutant of ScenarioData: every transaction is hashed as its to_dict()
\* record, which carries the fee, instead of the six selected fields.
ScenarioDataWithFee(s) ==
    LET es == edges(s.transaction_graph)
        transactions_list ==
            [i \in 1..Len(es) |->
                LET tx == es[i].data.transaction
                IN [tx_id |-> tx.tx_id,
                    from |-> es[i].from,
                    to |-> es[i].to,
                    amount |-> DecimalStr(tx.amount),
                    fee |-> DecimalStr(tx.fee),
                    asset |-> tx.asset.symbol,
                    timestamp |-> Isoformat(tx.timestamp)]]
    IN [scenario_id |-> s.scenario_id,
        intent |-> s.intent,
        created_at |-> Isoformat(s.created_at),
        jurisdiction_assumptions |-> s.jurisdiction_assumptions,
        motifs_used |-> s.motifs_used,
        entity_roles |-> s.entity_roles,
        aml_weaknesses |->
            Items(StableSort([i \in 1..Len(s.aml_weaknesses) |->
                [rank |-> StrRank(s.aml_weaknesses[i]), item |-> s.aml_weaknesses[i]]])),
        transaction_count |-> Len(es),
        transactions |->
            Items(StableSort([i \in 1..Len(es) |->
                [rank |-> StrRank(transactions_list[i].tx_id),
                 item |-> transactions_list[i]]]))]

\* The canonical representation compute_integrity_hash builds.
ScenarioData(s) ==
    LET es == edges(s.transaction_graph)
        transactions_list ==
            [i \in 1..Len(es) |->
                LET tx == es[i].data.transaction
                IN [tx_id |-> tx.tx_id,
                    from |-> es[i].from,
                    to |-> es[i].to,
                    amount |-> DecimalStr(tx.amount),
                    asset |-> tx.asset.symbol,
                    timestamp |-> Isoformat(tx.timestamp)]]
    IN [scenario_id |-> s.scenario_id,
        intent |-> s.intent,
        created_at |-> Isoformat(s.created_at),
        jurisdiction_assumptions |-> s.jurisdiction_assumptions,
        motifs_used |-> s.motifs_used,
        entity_roles |-> s.entity_roles,
        aml_weaknesses |->
            Items(StableSort([i \in 1..Len(s.aml_weaknesses) |->
                [rank |-> StrRank(s.aml_weaknesses[i]), item |-> s.aml_weaknesses[i]]])),
        transaction_count |-> Len(es),
        transactions |->
            Items(StableSort([i \in 1..Len(es) |->
                [rank |-> StrRank(transactions_list[i].tx_id),
                 item |-> transactions_list[i]]]))]

compute_integrity_hash(s) == compute_scenario_hash(ScenarioData(s))

\* The loop of add_transactions over transactions[i..]: done counts the
\* transactions whose add_edge ran; raised is TRUE when evaluating
\* tx.timestamp.isoformat() failed, after the nodes of that transaction
\* were added.
RECURSIVE AddLoop(_, _, _, _, _)
AddLoop(g, wallets_seen, transactions, entity_roles, i) ==
    IF i > Len(transactions)
    THEN [graph |-> g, done |-> i - 1, raised |-> FALSE]
    ELSE
        LET tx == transactions[i]
            f == tx.from_wallet.address
            t == tx.to_wallet.address
            g1 == IF f \notin wallets_seen
                  THEN add_node(g, f, [wallet |-> tx.from_wallet,
                                       role |-> DictGet(entity_roles, f, "unknown")])
                  ELSE g
            seen1 == wallets_seen \cup {f}
            g2 == IF t \notin seen1
                  THEN add_node(g1, t, [wallet |-> tx.to_wallet,
                                        role |-> DictGet(entity_roles, t, "unknown")])
                  ELSE g1
            seen2 == seen1 \cup {t}
        IN IF ~HasIsoformat(tx.timestamp)
           THEN [graph |-> g2, done |-> i - 1, raised |-> TRUE]
           ELSE AddLoop(add_edge(g2, f, t,
                                 [transaction |-> tx,
                                  tx_id |-> tx.tx_id,
                                  amount |-> DecimalStr(tx.amount),
                                  asset |-> tx.asset.symbol,
                                  timestamp |-> Isoformat(tx.timestamp)]),
                        seen2, transactions, entity_roles, i + 1)

\* Mutant of AppendWeaknesses: list.extend, without the membership test.
AppendWeaknessesAlways(list, new) == list \o new

\* Mutant of AppendWeaknesses: a weakness is skipped when it came earlier in
\* the same argument, whatever the list already holds.
AppendWeaknessesNewOnly(list, new) ==
    LET idx == {i \in 1..Len(new) : \A j \in 1..(i - 1) : new[j] # new[i]}
    IN list \o [k \in 1..Cardinality(idx) |->
                   new[CHOOSE i \in idx : Cardinality({j \in idx : j < i}) = k - 1]]

\* for weakness in aml_weaknesses: append it unless already in the list.
RECURSIVE AppendWeaknesses(_, _)
AppendWeaknesses(list, new) ==
    IF new = <<>> THEN list
    ELSE AppendWeaknesses(
            IF \E i \in 1..Len(list) : list[i] = Head(new) THEN list
            ELSE Append(list, Head(new)),
            Tail(new))

\* Mutant of add_transactions: the hash is recomputed before the role and
\* weakness updates instead of after them.
add_transactions_stale_hash(s, transactions, entity_roles, aml_weaknesses) ==
    LET loop == AddLoop(s.transaction_graph, {}, transactions, entity_roles, 1)
        s1 == [s EXCEPT !.transaction_graph = loop.graph]
        s2 == [s1 EXCEPT !.entity_roles = DictUpdate(@, entity_roles),
                         !.aml_weaknesses = AppendWeaknesses(@, aml_weaknesses)]
    IN IF loop.raised
       THEN [scenario |-> s1, raised |-> TRUE, done |-> loop.done]
       ELSE IF ~JsonSerialisable(ScenarioData(s2))
       THEN [scenario |-> s2, raised |-> TRUE, done |-> loop.done]
       ELSE [scenario |-> [s2 EXCEPT !.scenario_hash = <<compute_integrity_hash(s1)>>],
             raised |-> FALSE, done |-> loop.done]

\* Scenario.add_transactions on s: the scenario it leaves behind, whether it
\* raised, and how many transactions became edges.
add_transactions(s, transactions, entity_roles, aml_weaknesses) ==
    LET loop == AddLoop(s.transaction_graph, {}, transactions, entity_roles, 1)
        s1 == [s EXCEPT !.transaction_graph = loop.graph]
        s2 == [s1 EXCEPT !.entity_roles = DictUpdate(@, entity_roles),
                         !.aml_weaknesses = AppendWeaknesses(@, aml_weaknesses)]
    IN IF loop.raised
       THEN [scenario |-> s1, raised |-> TRUE, done |-> loop.done]
       ELSE IF ~JsonSerialisable(ScenarioData(s2))
       THEN [scenario |-> s2, raised |-> TRUE, done |-> loop.done]
       ELSE [scenario |-> [s2 EXCEPT !.scenario_hash = <<compute_integrity_hash(s2)>>],
             raised |-> FALSE, done |-> loop.done]

\* The per-edge check of validate over edges es[i..]: one error for every
\* edge whose transaction is stamped later than the clock.
RECURSIVE FutureErrors(_, _, _)
FutureErrors(es, now, i) ==
    IF i > Len(es) THEN <<>>
    ELSE LET tx == es[i].data.transaction
         IN (IF tx.timestamp.hours > now
             THEN << <<"Transaction ", tx.tx_id, " has future timestamp">> >>
             ELSE <<>>)
            \o FutureErrors(es, now, i + 1)

\* tx.timestamp > datetime.now() raises TypeError when the timestamp carries
\* an offset: datetime.now() is naive, and the two kinds do not compare.
CompareRaises(es) ==
    \E i \in 1..Len(es) : ~IsDateTime(es[i].data.transaction.timestamp)

\* Mutant of validate: the entity-role rule is left out.
validate_without_role_rule(s, now) ==
    LET errors ==
            (IF number_of_nodes(s.transaction_graph) = 0
             THEN << <<"Scenario graph is empty">> >> ELSE <<>>)
            \o FutureErrors(edges(s.transaction_graph), now, 1)
            \o (IF s.aml_weaknesses = <<>>
                THEN << <<"No AML weaknesses identified">> >> ELSE <<>>)
    IN IF CompareRaises(edges(s.transaction_graph))
       THEN [raised |-> TRUE, ok |-> FALSE, errors |-> <<>>]
       ELSE [raised |-> FALSE, ok |-> Len(errors) = 0, errors |-> errors]

\* Scenario.validate with datetime.now() = now: whether it raised and, when
\* it returned, (is_valid, errors).
validate(s, now) ==
    LET errors ==
            (IF number_of_nodes(s.transaction_graph) = 0
             THEN << <<"Scenario graph is empty">> >> ELSE <<>>)
            \o FutureErrors(edges(s.transaction_graph), now, 1)
            \o (IF s.entity_roles = <<>>
                THEN << <<"No entity roles defined">> >> ELSE <<>>)
            \o (IF s.aml_weaknesses = <<>>
                THEN << <<"No AML weaknesses identified">> >> ELSE <<>>)
    IN IF CompareRaises(edges(s.transaction_graph))
       THEN [raised |-> TRUE, ok |-> FALSE, errors |-> <<>>]
       ELSE [raised |-> FALSE, ok |-> Len(errors) = 0, errors |-> errors]

\* list(set(...)) of strings: the elements in the iteration order of the
\* set, which the hash seed of the process fixes.
Seeds == {0, 1}
HashOrder(seed) ==
    IF seed = 0 THEN <<"ETH", "Ethereum", "Polygon">>
    ELSE <<"Polygon", "Ethereum", "ETH">>
ListOfSet(S, seed) == SelectSeq(HashOrder(seed), LAMBDA x : x \in S)

RECURSIVE SumAmounts(_, _)
SumAmounts(transactions, i) ==
    IF i > Len(transactions) THEN Dec(0, 0)
    ELSE DecAdd(SumAmounts(transactions, i + 1), transactions[i].amount)

\* The edge transactions get_risk_summary reads.
SummaryTransactions(s) ==
    LET es == edges(s.transaction_graph)
    IN [i \in 1..Len(es) |-> es[i].data.transaction]

\* max(timestamps) and min(timestamps) raise TypeError when naive and aware
\* datetimes are mixed.
SummaryRaises(s) ==
    LET transactions == SummaryTransactions(s)
    IN \E i, j \in 1..Len(transactions) :
          transactions[i].timestamp.kind # transactions[j].timestamp.kind

\* The dict get_risk_summary returns; time_span_days is kept in hundredths
\* of a day (round(..., 2)).
SummaryDict(s, seed) ==
    LET transactions == SummaryTransactions(s)
        idx == 1..Len(transactions)
        hours == {transactions[i].timestamp.hours : i \in idx}
        latest == CHOOSE h \in hours : \A k \in hours : k <= h
        earliest == CHOOSE h \in hours : \A k \in hours : h <= k
    IN IF Len(transactions) = 0
       THEN <<KV("total_transactions", 0),
              KV("entities_involved", 0),
              KV("time_span_days", Dec(0, 0)),
              KV("total_amount", <<"0">>),
              KV("unique_assets", <<>>),
              KV("unique_chains", <<>>)>>
       ELSE <<KV("total_transactions", Len(transactions)),
              KV("entities_involved", number_of_nodes(s.transaction_graph)),
              KV("time_span_days",
                 Dec(RoundHalfEven((latest - earliest) * 100, 24), -2)),
              KV("total_amount", DecimalStr(SumAmounts(transactions, 1))),
              KV("unique_assets",
                 ListOfSet({transactions[i].asset.symbol : i \in idx}, seed)),
              KV("unique_chains",
                 ListOfSet({transactions[i].asset.chain : i \in idx}, seed)),
              KV("aml_weaknesses_count", Len(s.aml_weaknesses)),
              KV("motifs_used", s.motifs_used)>>

\* Mutant of get_risk_summary: the call drains the weakness list it counts.
get_risk_summary_draining(s, seed) ==
    [scenario |-> [s EXCEPT !.aml_weaknesses = <<>>],
     raised |-> Len(SummaryTransactions(s)) > 0 /\ SummaryRaises(s),
     summary |-> IF Len(SummaryTransactions(s)) > 0 /\ SummaryRaises(s)
                 THEN <<>> ELSE SummaryDict(s, seed)]

\* Mutant of get_risk_summary: no early return for a graph without edges, so
\* max() of an empty list raises.
get_risk_summary_without_empty_branch(s, seed) ==
    IF Len(SummaryTransactions(s)) = 0 \/ SummaryRaises(s)
    THEN [scenario |-> s, raised |-> TRUE, summary |-> <<>>]
    ELSE [scenario |-> s, raised |-> FALSE, summary |-> SummaryDict(s, seed)]

\* Scenario.get_risk_summary: the Scenario after the call, whether the call
\* raised, and the dict it returned.
get_risk_summary(s, seed) ==
    IF Len(SummaryTransactions(s)) > 0 /\ SummaryRaises(s)
    THEN [scenario |-> s, raised |-> TRUE, summary |-> <<>>]
    ELSE [scenario |-> s, raised |-> FALSE, summary |-> SummaryDict(s, seed)]

(***************************************************************************)
(* Inputs.  Wallets, assets and transactions as the templates build them:  *)
(* ETH on Ethereum and on Polygon, and an address that has a wallet on     *)
(* both chains.                                                            *)
(***************************************************************************)
ETH(c) == Asset("ETH", c)

Fee == Dec(1, -3)

P1 == Tx("tx1", Wallet("0xa", "Ethereum"), Wallet("0xb", "Ethereum"), ETH("Ethereum"),
         Dec(3, 0), Fee, DateTime(1))
\* the reverse direction
P2 == Tx("tx2", Wallet("0xb", "Ethereum"), Wallet("0xa", "Ethereum"), ETH("Ethereum"),
         Dec(3, 0), Fee, DateTime(2))
\* the same ordered pair as P1 under another id, stamped later
P3 == Tx("tx3", Wallet("0xa", "Ethereum"), Wallet("0xb", "Ethereum"), ETH("Ethereum"),
         Dec(5, 0), Fee, DateTime(30))
\* address 0xa as a Polygon wallet
P4 == Tx("tx2", Wallet("0xa", "Polygon"), Wallet("0xc", "Polygon"), ETH("Polygon"),
         Dec(30, -1), Fee, DateTime(3))
\* a transaction whose timestamp is no datetime
PBad == Tx("tx3", Wallet("0xb", "Ethereum"), Wallet("0xc", "Ethereum"), ETH("Ethereum"),
           Dec(3, 0), Fee, NotADateTime)

\* a transaction stamped with datetime.now(timezone.utc)
PAware == Tx("tx2", Wallet("0xb", "Ethereum"), Wallet("0xc", "Ethereum"), ETH("Ethereum"),
             Dec(3, 0), Fee, AwareDateTime(4))

Pool == {P1, P2, P3, P4, PBad}

TxLists ==
    {<<>>} \cup {<<t>> : t \in Pool \ {PBad}} \cup {<<P1, t>> : t \in Pool \ {P1}}
    \cup {<<PAware>>}

R1 == <<KV("0xa", "source"), KV("0xb", "destination")>>
R2 == <<KV("0xc", "destination"), KV("0xb", "intermediate_peel")>>
RBad == <<KV("0xa", NonJsonRole)>>

RoleDicts == {<<>>, R1, R2, RBad}

W1 == <<"Transaction clustering gaps", "Small amount thresholds bypass">>
W2 == <<"Small amount thresholds bypass", "Temporal pattern obfuscation",
        "Small amount thresholds bypass">>

WeaknessLists == {<<>>, W1, W2}

MergeInput(t, r, w) == [transactions |-> t, entity_roles |-> r, aml_weaknesses |-> w]

\* One argument varied at a time around (<<P1>>, R1, W1), and the empty merge.
MergeInputs ==
    {MergeInput(t, R1, W1) : t \in TxLists}
    \cup {MergeInput(<<P1>>, r, W1) : r \in RoleDicts}
    \cup {MergeInput(<<P1>>, R1, w) : w \in WeaknessLists}
    \cup {MergeInput(<<>>, <<>>, <<>>)}

NowValues == {20, 40}

US == [code |-> "US", name |-> "United States", tier |-> "STRICT"]

InitialScenario ==
    NewScenario("scenario-1", "LAUNDERING", <<US>>, <<"PeelChain">>, DateTime(0))

(***************************************************************************)
(* History of the calls, kept beside the scenario.                         *)
(***************************************************************************)
\* The node attributes the first transaction of txs touching address a
\* gives it.
FirstTouch(txs, roles, a) ==
    LET i == CHOOSE i \in 1..Len(txs) :
                /\ a \in {txs[i].from_wallet.address, txs[i].to_wallet.address}
                /\ \A j \in 1..(i - 1) :
                      a \notin {txs[j].from_wallet.address, txs[j].to_wallet.address}
    IN [wallet |-> IF txs[i].from_wallet.address = a
                   THEN txs[i].from_wallet ELSE txs[i].to_wallet,
        role |-> DictGet(roles, a, "unknown")]

\* The elements of s in order of first occurrence that are not in old.
FirstOccurrences(old, s) ==
    LET keep == {i \in 1..Len(s) :
                    /\ \A j \in 1..Len(old) : old[j] # s[i]
                    /\ \A j \in 1..(i - 1) : s[j] # s[i]}
        RECURSIVE Pick(_)
        Pick(i) == IF i > Len(s) THEN <<>>
                   ELSE (IF i \in keep THEN <<s[i]>> ELSE <<>>) \o Pick(i + 1)
    IN Pick(1)

\* now is the clock a validate call read; nth counts the consecutive
\* get_risk_summary calls, up to the second.
Returned(op) ==
    [op |-> op, raised |-> FALSE, ok |-> FALSE, errors |-> <<>>, summary |-> <<>>,
     now |-> 0, nth |-> 1]
Raised(op) ==
    [op |-> op, raised |-> TRUE, ok |-> FALSE, errors |-> <<>>, summary |-> <<>>,
     now |-> 0, nth |-> 1]

NoCall == [kind |-> "none"]

\* The Scenario and its history after construction.
InitScenario ==
    /\ scenario = InitialScenario
    /\ twin = InitialScenario
    /\ result = Returned("__init__")
    /\ calls = 0
    /\ pre = InitialScenario
    /\ merged = {}
    /\ first_attr = <<>>
    /\ last_role = <<>>
    /\ first_seen = <<>>
    /\ all_returned = TRUE
    /\ relation = [kind |-> "same", pending |-> <<>>]
    /\ output = NoCall

\* No action of the specifications that start here reads hash_seed; those
\* that read it start from InitSummary.
Init == InitScenario /\ hash_seed = 0 /\ args = NoCall

\* scenario.add_transactions(transactions, entity_roles, aml_weaknesses),
\* with the history kept beside it
Merge(in) ==
    /\ calls < MaxMerges
    /\ LET txs == in.transactions
           r == add_transactions(scenario, txs, in.entity_roles, in.aml_weaknesses)
           \* the transactions whose nodes were added: those that became
           \* edges and, when the loop raised, the one it raised on
           reached == IF r.done < Len(txs) THEN r.done + 1 ELSE r.done
           touched == UNION {{txs[i].from_wallet.address, txs[i].to_wallet.address} :
                                i \in 1..reached}
           fresh == touched \ DOMAIN first_attr
       IN /\ scenario' = r.scenario
          /\ result' = IF r.raised THEN Raised("add_transactions")
                       ELSE Returned("add_transactions")
          /\ pre' = scenario
          /\ merged' = merged \cup {txs[i] : i \in 1..r.done}
          /\ first_attr' = first_attr @@
                [a \in fresh |-> FirstTouch(SubSeq(txs, 1, reached), in.entity_roles, a)]
          /\ last_role' =
                IF r.raised THEN last_role
                ELSE [a \in DOMAIN last_role \cup DictKeys(in.entity_roles) |->
                        IF a \in DictKeys(in.entity_roles)
                        THEN DictGet(in.entity_roles, a, "unknown")
                        ELSE last_role[a]]
          /\ first_seen' =
                IF r.raised THEN first_seen
                ELSE first_seen \o FirstOccurrences(first_seen, in.aml_weaknesses)
          /\ all_returned' = (all_returned /\ ~r.raised)
    /\ calls' = calls + 1
    /\ UNCHANGED <<hash_seed, args, output>>

\* scenario.add_transactions(...) with the second Scenario left alone
AddTransactions ==
    \E in \in MergeInputs : Merge(in) /\ UNCHANGED <<twin, relation>>

\* scenario.validate()
Validate ==
    /\ \E now \in NowValues :
          LET v == validate(scenario, now)
          IN result' = [op |-> "validate", raised |-> v.raised,
                        ok |-> v.ok, errors |-> v.errors, summary |-> <<>>,
                        now |-> now, nth |-> 1]
    /\ UNCHANGED <<scenario, twin, calls, pre, merged, first_attr, last_role,
                   first_seen, all_returned, relation, hash_seed, args, output>>

\* scenario.get_risk_summary()
RiskSummary ==
    /\ LET r == get_risk_summary(scenario, hash_seed)
       IN /\ scenario' = r.scenario
          /\ result' = [op |-> "get_risk_summary", raised |-> r.raised,
                        ok |-> FALSE, errors |-> <<>>, summary |-> r.summary,
                        now |-> 0, nth |-> IF result.op = "get_risk_summary" THEN 2 ELSE 1]
    /\ UNCHANGED <<twin, calls, pre, merged, first_attr, last_role,
                   first_seen, all_returned, relation, hash_seed, args, output>>

Next == AddTransactions \/ Validate

Spec == Init /\ [][Next]_vars

\* scenario.add_transactions(...) with the triple of the call kept in
\* relation, and whether it is the triple of the call before.
AddTransactionsKept ==
    /\ \E in \in MergeInputs :
          /\ Merge(in)
          /\ relation' = [kind |-> IF relation.kind # "same" /\ relation.pending = in
                                   THEN "again" ELSE "first",
                          pending |-> in]
    /\ UNCHANGED twin

\* Merges alone, each remembering its arguments.
SpecRepeat == Init /\ [][AddTransactionsKept]_vars

\* Merges and summaries, in a process of either hash seed.
InitSummary == InitScenario /\ hash_seed \in Seeds /\ args = NoCall

SummaryNext == AddTransactions \/ RiskSummary

SpecSummary == InitSummary /\ [][SummaryNext]_vars

(***************************************************************************)
(* Two Scenarios constructed with the same arguments and fed related       *)
(* merges.  Only calls that return are compared: the inputs are those of   *)
(* MergeInputs without the malformed timestamp and role.                   *)
(***************************************************************************)
R3 == <<KV("0xc", "intermediate_peel")>>

GoodTxLists == {t \in TxLists : \A i \in 1..Len(t) : IsDateTime(t[i].timestamp)}

GoodInputs ==
    {in \in MergeInputs :
        /\ in.transactions \in GoodTxLists
        /\ JsonSerialisable([entity_roles |-> in.entity_roles])}

Fees == {Dec(1, -3), Dec(1, -4)}

\* The transaction t with another fee and with its wallets and asset on
\* chain c: tx id, addresses, amount, asset symbol and timestamp are kept.
Vary(t, fee, c) ==
    [t EXCEPT !.fee = fee,
              !.from_wallet.chain = c,
              !.to_wallet.chain = c,
              !.asset.chain = c]

VaryAll(txs, fee, c) == [i \in 1..Len(txs) |-> Vary(txs[i], fee, c)]

SameContent(t, u) ==
    /\ t.tx_id = u.tx_id
    /\ t.from_wallet.address = u.from_wallet.address
    /\ t.to_wallet.address = u.to_wallet.address
    /\ t.amount = u.amount
    /\ t.asset.symbol = u.asset.symbol
    /\ t.timestamp = u.timestamp

TwinMerge(in) ==
    twin' = add_transactions(twin, in.transactions, in.entity_roles,
                             in.aml_weaknesses).scenario

\* Both Scenarios merge transactions of identical content.
MergeSameContent ==
    /\ calls < MaxTwinMerges
    /\ \E in \in GoodInputs, fee \in Fees, c \in Chains :
          LET txs2 == VaryAll(in.transactions, fee, c)
          IN /\ \A i \in 1..Len(txs2) :
                    PostInitOk(txs2[i]) /\ SameContent(in.transactions[i], txs2[i])
             /\ Merge(in)
             /\ TwinMerge([in EXCEPT !.transactions = txs2])
    /\ UNCHANGED relation

SpecTwin == Init /\ [][MergeSameContent]_vars

Amounts == {Dec(3, 0), Dec(5, 0), Dec(30, -1)}

\* Both Scenarios merge the same input.
SensSame ==
    /\ calls < MaxTwinMerges
    /\ \E in \in GoodInputs : Merge(in) /\ TwinMerge(in)
    /\ UNCHANGED relation

\* One merge in which exactly one transaction has another amount in the
\* second Scenario.
SensAmount ==
    /\ calls < MaxTwinMerges
    /\ relation.kind = "same"
    /\ \E in \in GoodInputs :
          \E i \in 1..Len(in.transactions), amount \in Amounts :
              /\ amount # in.transactions[i].amount
              /\ Merge(in)
              /\ TwinMerge([in EXCEPT !.transactions[i].amount = amount])
    /\ relation' = [relation EXCEPT !.kind = "amount"]

\* One merge in which the second Scenario is given one more weakness label,
\* a label it does not hold yet.
SensWeakness ==
    /\ calls < MaxTwinMerges
    /\ relation.kind = "same"
    /\ \E in \in GoodInputs, label \in Labels :
          /\ \A i \in 1..Len(twin.aml_weaknesses) : twin.aml_weaknesses[i] # label
          /\ \A i \in 1..Len(in.aml_weaknesses) : in.aml_weaknesses[i] # label
          /\ Merge(in)
          /\ TwinMerge([in EXCEPT !.aml_weaknesses = Append(@, label)])
    /\ relation' = [relation EXCEPT !.kind = "weakness"]

SensNext == SensSame \/ SensAmount \/ SensWeakness

SpecSens == Init /\ [][SensNext]_vars

\* The inputs of the order comparison: every combination of well-formed
\* transaction list, role mapping and weakness list.
OrderInputs ==
    {MergeInput(t, r, w) : t \in GoodTxLists, r \in {<<>>, R1, R2, R3},
                           w \in WeaknessLists}

Pairs(in) ==
    {<<in.transactions[i].from_wallet.address, in.transactions[i].to_wallet.address>> :
        i \in 1..Len(in.transactions)}

Ids(in) == {in.transactions[i].tx_id : i \in 1..Len(in.transactions)}

\* Pairwise distinct tx ids, disjoint role keys, disjoint ordered wallet pairs.
Independent(x, y) ==
    /\ Cardinality(Ids(x)) = Len(x.transactions)
    /\ Cardinality(Ids(y)) = Len(y.transactions)
    /\ Ids(x) \cap Ids(y) = {}
    /\ DictKeys(x.entity_roles) \cap DictKeys(y.entity_roles) = {}
    /\ Pairs(x) \cap Pairs(y) = {}

\* The first Scenario merges x while the second merges y ...
OrderFirst ==
    /\ calls = 0
    /\ relation.kind = "same"
    /\ \E x, y \in OrderInputs :
          /\ x # y
          /\ Independent(x, y)
          /\ Merge(x)
          /\ TwinMerge(y)
          /\ relation' = [kind |-> "half", pending |-> <<x, y>>]

\* ... and then the first merges y while the second merges x.
OrderSecond ==
    /\ relation.kind = "half"
    /\ Merge(relation.pending[2])
    /\ TwinMerge(relation.pending[1])
    /\ relation' = [kind |-> "swapped", pending |-> <<>>]

OrderNext == OrderFirst \/ OrderSecond

SpecOrder == Init /\ [][OrderNext]_vars

(***************************************************************************)
(* Transaction construction (primitives.py): the dataclass stores the      *)
(* fields it is given and __post_init__ checks them.                       *)
(***************************************************************************)
AmountValues == {Dec(-1, 0), Dec(0, 0), Dec(1, -3), Dec(3, 0)}
FeeValues == {Dec(-1, -3), Dec(0, 0), Dec(1, -3)}

TxArgs ==
    {[kind |-> "Transaction",
      tx |-> Tx("tx1", Wallet("0xa", fc), Wallet("0xb", tc), ETH(ac), amount, fee,
                DateTime(1))] :
        fc \in Chains, tc \in Chains, ac \in Chains,
        amount \in AmountValues, fee \in FeeValues}

InitTx == InitScenario /\ hash_seed = 0 /\ args \in TxArgs

\* Transaction(tx_id, from_wallet, to_wallet, asset, amount, fee, timestamp)
ConstructTransaction ==
    /\ args.kind = "Transaction"
    /\ output.kind = "none"
    /\ output' = IF PostInitOk(args.tx)
                 THEN [kind |-> "returned", tx |-> args.tx]
                 ELSE [kind |-> "raised"]
    /\ UNCHANGED <<scenario, twin, result, calls, pre, merged, first_attr,
                   last_role, first_seen, all_returned, relation, hash_seed, args>>

SpecTx == InitTx /\ [][ConstructTransaction]_vars

(***************************************************************************)
(* Motifs (motifs.py).  A call is                                          *)
(*   [kind, motif, source, target, asset, params, now, draws]              *)
(* where params is the dict given to generate_subgraph, now the minute     *)
(* datetime.now() returns during the call, and draws the values the        *)
(* random module returns during the call.  Times are whole minutes.        *)
(***************************************************************************)
DateTimeMin(m) == [kind |-> "datetime", hours |-> m \div 60, minute |-> m % 60]
MinuteOf(ts) == ts.hours * 60 + ts.minute

MotifReturned(transactions, entity_roles, aml_weaknesses) ==
    [kind |-> "returned", transactions |-> transactions,
     entity_roles |-> entity_roles, aml_weaknesses |-> aml_weaknesses,
     error |-> "none"]
MotifRaised(error) ==
    [kind |-> "raised", transactions |-> <<>>, entity_roles |-> <<>>,
     aml_weaknesses |-> <<>>, error |-> error]

\* The k-th value random.uniform returns for a delay in hours, in minutes.
DelayMinutes(draws, k) == draws.hours[((k - 1) % Len(draws.hours)) + 1] * 60

\* The addresses random.choices draws for the intermediate wallets of one
\* call: 40 hex digits each, taken as distinct from one another and from
\* the addresses of the source and the target.
FreshAddr == <<"0xi0", "0xi1", "0xi2", "0xi3">>

\* The for loop of PeelChain.generate_subgraph from hop i on.
RECURSIVE PeelLoop(_, _, _, _, _, _)
PeelLoop(call, i, current_wallet, current_time, transactions, entity_roles) ==
    LET depth == DictGet(call.params, "depth", 5)
        cost_tolerance == DictGet(call.params, "cost_tolerance", Dec(1, -3))
        total_amount == DictGet(call.params, "amount", Dec(100, -1))
        amount_per_hop == DecDiv(total_amount, depth)
    IN IF i >= depth - 1
       THEN [raised |-> FALSE, current_wallet |-> current_wallet,
             current_time |-> current_time, transactions |-> transactions,
             entity_roles |-> entity_roles]
       ELSE LET intermediate_wallet == Wallet(FreshAddr[i + 1], call.asset.chain)
                roles1 == DictSet(entity_roles, intermediate_wallet.address,
                                  "intermediate_peel")
                tx == Tx(<<"peel_", i>>, current_wallet, intermediate_wallet,
                         call.asset, amount_per_hop,
                         DecMul(cost_tolerance, call.draws.factor),
                         DateTimeMin(current_time))
            IN IF ~PostInitOk(tx)
               THEN [raised |-> TRUE, current_wallet |-> current_wallet,
                     current_time |-> current_time, transactions |-> transactions,
                     entity_roles |-> roles1]
               ELSE PeelLoop(call, i + 1, intermediate_wallet,
                             current_time + DelayMinutes(call.draws, i + 1),
                             Append(transactions, tx), roles1)

\* PeelChain.generate_subgraph.  total_amount / Decimal(depth) raises
\* decimal.DivisionByZero for depth 0 (decimal.InvalidOperation when the
\* amount is zero as well) before any wallet or transaction is built.
PeelChain(call) ==
    LET depth == DictGet(call.params, "depth", 5)
        cost_tolerance == DictGet(call.params, "cost_tolerance", Dec(1, -3))
        total_amount == DictGet(call.params, "amount", Dec(100, -1))
        entity_roles == DictSet(DictSet(<<>>, call.source.address, "source"),
                                call.target.address, "destination")
    IN IF depth = 0
       THEN MotifRaised(IF total_amount.coef = 0 THEN "InvalidOperation"
                        ELSE "DivisionByZero")
       ELSE
        LET loop == PeelLoop(call, 0, call.source, call.now, <<>>, entity_roles)
            final_tx == Tx(<<"peel_final_">>, loop.current_wallet, call.target,
                           call.asset, DecDiv(total_amount, depth),
                           DecMul(cost_tolerance, call.draws.factor),
                           DateTimeMin(loop.current_time))
        IN IF loop.raised \/ ~PostInitOk(final_tx) THEN MotifRaised("ValueError")
           ELSE MotifReturned(Append(loop.transactions, final_tx),
                              loop.entity_roles,
                              <<"Transaction clustering gaps",
                                "Small amount thresholds bypass",
                                "Temporal pattern obfuscation">>)

\* f'bridge_{i}'
BridgeRole == <<"bridge_0", "bridge_1">>

\* The for loop of CrossChainBridge.generate_subgraph from bridge chain i
\* (counted from 0) on.
RECURSIVE BridgeLoop(_, _, _, _, _, _)
BridgeLoop(call, i, current_wallet, current_time, transactions, entity_roles) ==
    LET bridge_chains == DictGet(call.params, "bridge_chains", <<>>)
        amount == DictGet(call.params, "amount", Dec(100, -1))
    IN IF i >= Len(bridge_chains)
       THEN [raised |-> FALSE, current_wallet |-> current_wallet,
             current_time |-> current_time, transactions |-> transactions,
             entity_roles |-> entity_roles]
       ELSE LET bridge_wallet == Wallet(FreshAddr[i + 1], bridge_chains[i + 1])
                roles1 == DictSet(entity_roles, bridge_wallet.address,
                                  BridgeRole[i + 1])
                bridge_tx == Tx(<<"bridge_", i>>, current_wallet, bridge_wallet,
                                call.asset, amount, Dec(1, -2),
                                DateTimeMin(current_time))
            IN IF ~PostInitOk(bridge_tx)
               THEN [raised |-> TRUE, current_wallet |-> current_wallet,
                     current_time |-> current_time, transactions |-> transactions,
                     entity_roles |-> roles1]
               ELSE BridgeLoop(call, i + 1, bridge_wallet,
                               current_time + DelayMinutes(call.draws, i + 1),
                               Append(transactions, bridge_tx), roles1)

\* CrossChainBridge.generate_subgraph
CrossChainBridge(call) ==
    LET bridge_chains == DictGet(call.params, "bridge_chains", <<>>)
        amount == DictGet(call.params, "amount", Dec(100, -1))
        entity_roles == DictSet(DictSet(<<>>, call.source.address, "source"),
                                call.target.address, "destination")
        aml_weaknesses == <<"Cross-chain analysis gaps",
                            "Bridge correlation weaknesses",
                            "Multi-chain jurisdiction arbitrage">>
    IN IF Len(bridge_chains) > 0
       THEN LET loop == BridgeLoop(call, 0, call.source, call.now, <<>>,
                                   entity_roles)
                final_bridge_tx == Tx(<<"bridge_final_">>, loop.current_wallet,
                                      call.target, call.asset, amount, Dec(1, -2),
                                      DateTimeMin(loop.current_time))
            IN IF loop.raised \/ ~PostInitOk(final_bridge_tx)
               THEN MotifRaised("ValueError")
               ELSE MotifReturned(Append(loop.transactions, final_bridge_tx),
                                  loop.entity_roles, aml_weaknesses)
       ELSE LET bridge_tx == Tx(<<"bridge_">>, call.source, call.target, call.asset,
                                amount, Dec(1, -2), DateTimeMin(call.now))
            IN IF ~PostInitOk(bridge_tx) THEN MotifRaised("ValueError")
               ELSE MotifReturned(<<bridge_tx>>, entity_roles, aml_weaknesses)

\* f"mixer_entry_{i}_{random.randint(10000, 99999)}" and its exit twin: the
\* wallet addresses and, equally, the roles f'mixer_entry_{i}'.
MixerEntry == <<"mixer_entry_0", "mixer_entry_1", "mixer_entry_2">>
MixerExit == <<"mixer_exit_0", "mixer_exit_1", "mixer_exit_2">>

\* The for loop of MixerObfuscation.generate_subgraph from round i on.  Each
\* round draws two delays; the second moves current_time.
RECURSIVE MixerLoop(_, _, _, _, _, _)
MixerLoop(call, i, current_wallet, current_time, transactions, entity_roles) ==
    LET mixer_rounds == DictGet(call.params, "mixer_rounds", 3)
        amount == DictGet(call.params, "amount", Dec(100, -1))
    IN IF i >= mixer_rounds
       THEN [raised |-> FALSE, current_wallet |-> current_wallet,
             current_time |-> current_time, transactions |-> transactions,
             entity_roles |-> entity_roles]
       ELSE LET mixer_entry == Wallet(MixerEntry[i + 1], call.asset.chain)
                roles1 == DictSet(entity_roles, mixer_entry.address,
                                  MixerEntry[i + 1])
                entry_tx == Tx(<<"mixer_entry_", i>>, current_wallet, mixer_entry,
                               call.asset, amount, Dec(5, -3),
                               DateTimeMin(current_time))
                mixer_exit == Wallet(MixerExit[i + 1], call.asset.chain)
                roles2 == DictSet(roles1, mixer_exit.address, MixerExit[i + 1])
                time1 == current_time + DelayMinutes(call.draws, 2 * i + 2)
                mixer_fee == DecMul(amount, Dec(3, -2))
                exit_tx == Tx(<<"mixer_exit_", i>>, mixer_entry, mixer_exit,
                              call.asset, DecSub(amount, mixer_fee), Dec(5, -3),
                              DateTimeMin(time1))
            IN IF ~PostInitOk(entry_tx)
               THEN [raised |-> TRUE, current_wallet |-> current_wallet,
                     current_time |-> current_time, transactions |-> transactions,
                     entity_roles |-> roles1]
               ELSE IF ~PostInitOk(exit_tx)
               THEN [raised |-> TRUE, current_wallet |-> current_wallet,
                     current_time |-> time1,
                     transactions |-> Append(transactions, entry_tx),
                     entity_roles |-> roles2]
               ELSE MixerLoop(call, i + 1, mixer_exit, time1,
                              Append(Append(transactions, entry_tx), exit_tx),
                              roles2)

\* MixerObfuscation.generate_subgraph with a final hop that carries the
\* whole amount
MixerObfuscationWithoutFinalFee(call) ==
    LET amount == DictGet(call.params, "amount", Dec(100, -1))
        entity_roles == DictSet(DictSet(<<>>, call.source.address, "source"),
                                call.target.address, "destination")
        loop == MixerLoop(call, 0, call.source, call.now, <<>>, entity_roles)
        final_tx == Tx(<<"mixer_final_">>, loop.current_wallet, call.target,
                       call.asset, amount, Dec(1, -3),
                       DateTimeMin(loop.current_time + call.draws.final_hours * 60))
    IN IF loop.raised \/ ~PostInitOk(final_tx) THEN MotifRaised("ValueError")
       ELSE MotifReturned(Append(loop.transactions, final_tx), loop.entity_roles,
                          <<"Mixer exit correlation gaps",
                            "Temporal pattern obfuscation",
                            "Transaction graph fragmentation">>)

\* MixerObfuscation.generate_subgraph
MixerObfuscation(call) ==
    LET mixer_rounds == DictGet(call.params, "mixer_rounds", 3)
        amount == DictGet(call.params, "amount", Dec(100, -1))
        entity_roles == DictSet(DictSet(<<>>, call.source.address, "source"),
                                call.target.address, "destination")
        loop == MixerLoop(call, 0, call.source, call.now, <<>>, entity_roles)
        final_tx == Tx(<<"mixer_final_">>, loop.current_wallet, call.target,
                       call.asset,
                       DecSub(amount, DecMul(DecMul(amount, Dec(3, -2)),
                                             Dec(mixer_rounds, 0))),
                       Dec(1, -3),
                       DateTimeMin(loop.current_time + call.draws.final_hours * 60))
    IN IF loop.raised \/ ~PostInitOk(final_tx) THEN MotifRaised("ValueError")
       ELSE MotifReturned(Append(loop.transactions, final_tx), loop.entity_roles,
                          <<"Mixer exit correlation gaps",
                            "Temporal pattern obfuscation",
                            "Transaction graph fragmentation">>)

\* f"nft_wash_{i}_{random.randint(10000, 99999)}" and f'nft_wash_intermediary_{i}'
NftAddr == <<"nft_wash_0", "nft_wash_1", "nft_wash_2">>
NftRole == <<"nft_wash_intermediary_0", "nft_wash_intermediary_1",
             "nft_wash_intermediary_2">>

\* b * Decimal(1.1) ** i, kept as the product it is: the value is
\* coef * 10^exp * F^pow, where F = Decimal(1.1) is the Decimal of the
\* float 1.1 (1.100000000000000088817841970012523233890533447265625).
TimesPow(b, i) == [coef |-> b.coef, exp |-> b.exp, pow |-> i]

\* The for loop of NFTWashTrading.generate_subgraph from round i on.
RECURSIVE WashLoop(_, _, _, _, _, _)
WashLoop(call, i, current_wallet, current_time, transactions, entity_roles) ==
    LET wash_rounds == DictGet(call.params, "wash_rounds", 5)
        base_amount == DictGet(call.params, "amount", Dec(50, -1))
    IN IF i >= wash_rounds
       THEN [raised |-> FALSE, current_wallet |-> current_wallet,
             current_time |-> current_time, transactions |-> transactions,
             entity_roles |-> entity_roles]
       ELSE LET intermediary == Wallet(NftAddr[i + 1], call.asset.chain)
                roles1 == DictSet(entity_roles, intermediary.address, NftRole[i + 1])
                trade_tx == Tx(<<"nft_wash_", i, "_a_">>, current_wallet,
                               intermediary, call.asset, TimesPow(base_amount, i),
                               Dec(1, -2), DateTimeMin(current_time))
            IN IF ~PostInitOk(trade_tx)
               THEN [raised |-> TRUE, current_wallet |-> current_wallet,
                     current_time |-> current_time, transactions |-> transactions,
                     entity_roles |-> roles1]
               ELSE WashLoop(call, i + 1, intermediary,
                             current_time + DelayMinutes(call.draws, i + 1),
                             Append(transactions, trade_tx), roles1)

\* NFTWashTrading.generate_subgraph
NFTWashTrading(call) ==
    LET wash_rounds == DictGet(call.params, "wash_rounds", 5)
        base_amount == DictGet(call.params, "amount", Dec(50, -1))
        entity_roles == DictSet(DictSet(<<>>, call.source.address, "source"),
                                call.target.address, "destination")
        loop == WashLoop(call, 0, call.source, call.now, <<>>, entity_roles)
        final_tx == Tx(<<"nft_wash_final_">>, loop.current_wallet, call.target,
                       call.asset, TimesPow(base_amount, wash_rounds), Dec(1, -2),
                       DateTimeMin(loop.current_time))
    IN IF loop.raised \/ ~PostInitOk(final_tx) THEN MotifRaised("ValueError")
       ELSE MotifReturned(Append(loop.transactions, final_tx), loop.entity_roles,
                          <<"NFT price manipulation detection gaps",
                            "Circular trading pattern recognition",
                            "Marketplace correlation weaknesses">>)

\* DormancyCooling.generate_subgraph with the drawn number taken as hours
DormancyCoolingInHours(call) ==
    LET cooling_period_days == DictGet(call.params, "cooling_period_days", <<30, 90>>)
        amount == DictGet(call.params, "amount", Dec(100, -1))
        cooling_wallet == Wallet("cooling_0", call.asset.chain)
        entity_roles ==
            DictSet(DictSet(DictSet(<<>>, call.source.address, "source"),
                            call.target.address, "destination"),
                    cooling_wallet.address, "cooling_wallet")
        initial_tx == Tx(<<"cooling_initial_">>, call.source, cooling_wallet,
                         call.asset, amount, Dec(1, -3), DateTimeMin(call.now))
        cooled_time == call.now + call.draws.elapsed + call.draws.days * 60
        cooled_tx == Tx(<<"cooling_exit_">>, cooling_wallet, call.target,
                        call.asset, amount, Dec(1, -3), DateTimeMin(cooled_time))
    IN IF ~PostInitOk(initial_tx) THEN MotifRaised("ValueError")
       ELSE IF cooling_period_days[1] > cooling_period_days[2]
       THEN MotifRaised("ValueError: empty range")
       ELSE IF ~PostInitOk(cooled_tx) THEN MotifRaised("ValueError")
       ELSE MotifReturned(<<initial_tx, cooled_tx>>, entity_roles,
                          <<"Temporal analysis gaps",
                            "Dormancy pattern recognition",
                            "Long-term correlation weaknesses">>)

\* DormancyCooling.generate_subgraph.  datetime.now() is read once for the
\* deposit and again, draws.elapsed minutes later, for the withdrawal;
\* random.randint raises ValueError on an empty range.
DormancyCooling(call) ==
    LET cooling_period_days == DictGet(call.params, "cooling_period_days", <<30, 90>>)
        amount == DictGet(call.params, "amount", Dec(100, -1))
        cooling_wallet == Wallet("cooling_0", call.asset.chain)
        entity_roles ==
            DictSet(DictSet(DictSet(<<>>, call.source.address, "source"),
                            call.target.address, "destination"),
                    cooling_wallet.address, "cooling_wallet")
        initial_tx == Tx(<<"cooling_initial_">>, call.source, cooling_wallet,
                         call.asset, amount, Dec(1, -3), DateTimeMin(call.now))
        cooling_days == call.draws.days
        cooled_time == call.now + call.draws.elapsed + cooling_days * 24 * 60
        cooled_tx == Tx(<<"cooling_exit_">>, cooling_wallet, call.target,
                        call.asset, amount, Dec(1, -3), DateTimeMin(cooled_time))
    IN IF ~PostInitOk(initial_tx) THEN MotifRaised("ValueError")
       ELSE IF cooling_period_days[1] > cooling_period_days[2]
       THEN MotifRaised("ValueError: empty range")
       ELSE IF ~PostInitOk(cooled_tx) THEN MotifRaised("ValueError")
       ELSE MotifReturned(<<initial_tx, cooled_tx>>, entity_roles,
                          <<"Temporal analysis gaps",
                            "Dormancy pattern recognition",
                            "Long-term correlation weaknesses">>)

\* FalsePositiveTrap.generate_subgraph with every trade running source ->
\* target
FalsePositiveTrapOneWay(call) ==
    LET pattern_type == DictGet(call.params, "pattern_type", "high_frequency_trading")
        amount == DictGet(call.params, "amount", Dec(100, -1))
        entity_roles ==
            DictSet(DictSet(<<>>, call.source.address, "legitimate_source"),
                    call.target.address, "legitimate_destination")
        aml_weaknesses == <<"Pattern-based false positive triggers",
                            "Legitimate activity misclassification",
                            "Context-agnostic rule-based detection">>
        num_trades == 10
        trade(i) == Tx(<<"hft_", i>>, call.source, call.target,
                       call.asset, DecDiv(amount, num_trades), Dec(1, -4),
                       DateTimeMin(call.now + i * 5))
        tx == Tx(<<"legitimate_">>, call.source, call.target, call.asset, amount,
                 Dec(1, -3), DateTimeMin(call.now))
    IN IF pattern_type = "high_frequency_trading"
       THEN IF \E i \in 0..(num_trades - 1) : ~PostInitOk(trade(i))
            THEN MotifRaised("ValueError")
            ELSE MotifReturned([k \in 1..num_trades |-> trade(k - 1)],
                               entity_roles, aml_weaknesses)
       ELSE IF ~PostInitOk(tx) THEN MotifRaised("ValueError")
            ELSE MotifReturned(<<tx>>, entity_roles, aml_weaknesses)

\* FalsePositiveTrap.generate_subgraph
FalsePositiveTrap(call) ==
    LET pattern_type == DictGet(call.params, "pattern_type", "high_frequency_trading")
        amount == DictGet(call.params, "amount", Dec(100, -1))
        entity_roles ==
            DictSet(DictSet(<<>>, call.source.address, "legitimate_source"),
                    call.target.address, "legitimate_destination")
        aml_weaknesses == <<"Pattern-based false positive triggers",
                            "Legitimate activity misclassification",
                            "Context-agnostic rule-based detection">>
        num_trades == 10
        trade(i) == Tx(<<"hft_", i>>,
                       IF i % 2 = 0 THEN call.source ELSE call.target,
                       IF i % 2 = 0 THEN call.target ELSE call.source,
                       call.asset, DecDiv(amount, num_trades), Dec(1, -4),
                       DateTimeMin(call.now + i * 5))
        tx == Tx(<<"legitimate_">>, call.source, call.target, call.asset, amount,
                 Dec(1, -3), DateTimeMin(call.now))
    IN IF pattern_type = "high_frequency_trading"
       THEN IF \E i \in 0..(num_trades - 1) : ~PostInitOk(trade(i))
            THEN MotifRaised("ValueError")
            ELSE MotifReturned([k \in 1..num_trades |-> trade(k - 1)],
                               entity_roles, aml_weaknesses)
       ELSE IF ~PostInitOk(tx) THEN MotifRaised("ValueError")
            ELSE MotifReturned(<<tx>>, entity_roles, aml_weaknesses)

\* motif.generate_subgraph(source_wallet, target_wallet, asset, params)
generate_subgraph(call) ==
    CASE call.motif = "PeelChain" -> PeelChain(call)
      [] call.motif = "CrossChainBridge" -> CrossChainBridge(call)
      [] call.motif = "MixerObfuscation" -> MixerObfuscation(call)
      [] call.motif = "NFTWashTrading" -> NFTWashTrading(call)
      [] call.motif = "DormancyCooling" -> DormancyCooling(call)
      [] call.motif = "FalsePositiveTrap" -> FalsePositiveTrap(call)

(***************************************************************************)
(* The calls made on the motifs.  Source, target and asset as the          *)
(* templates pass them: on one chain or on two, and with the target the    *)
(* very wallet of the source (cross_chain_laundering hands its destination *)
(* wallet to PeelChain as both).  Amounts are Decimal(str(amount)).        *)
(***************************************************************************)
Endpoints ==
    {[source |-> Wallet("0xa", sc), target |-> Wallet(ta, tc), asset |-> ETH(ac)] :
        sc \in Chains, tc \in Chains, ac \in Chains, ta \in {"0xa", "0xb"}}

NoDraws ==
    [hours |-> <<0, 0>>, factor |-> Dec(5, -1), final_hours |-> 1, days |-> 0,
     elapsed |-> 0]

\* random.uniform(lo, hi), twice: each draw at an end of the range.
HourDraws(range) == {<<a, b>> : a \in {range[1], range[2]}, b \in {range[1], range[2]}}

MotifCall(motif, e, params, draws) ==
    [kind |-> "motif", motif |-> motif, source |-> e.source, target |-> e.target,
     asset |-> e.asset, params |-> params, now |-> 6000, draws |-> draws]

Variances == {<<1, 6>>, <<0, 0>>, <<-6, -1>>}

PeelParams ==
    {<<>>}
    \cup {<<KV("depth", d), KV("amount", a), KV("time_variance", tv)>> :
            d \in {-1, 0, 1, 2, 3}, a \in {Dec(9, 0), Dec(90, -1), Dec(0, 0)},
            tv \in Variances}
PeelCalls ==
    UNION {{MotifCall("PeelChain", e, params,
                      [NoDraws EXCEPT !.hours = h, !.factor = f]) :
                e \in Endpoints,
                h \in HourDraws(DictGet(params, "time_variance", <<1, 6>>)),
                f \in {Dec(5, -1), Dec(1, 0)}} :
           params \in PeelParams}

BridgeParams ==
    {<<>>}
    \cup {<<KV("bridge_chains", bc), KV("amount", a), KV("time_variance", tv)>> :
            bc \in {<<>>, <<"Ethereum">>, <<"Polygon">>, <<"Polygon", "Ethereum">>,
                    <<"Ethereum", "Ethereum">>},
            a \in {Dec(2000, -1), Dec(0, 0)},
            tv \in {<<12, 48>>, <<-6, -1>>}}
BridgeCalls ==
    UNION {{MotifCall("CrossChainBridge", e, params, [NoDraws EXCEPT !.hours = h]) :
                e \in Endpoints,
                h \in HourDraws(DictGet(params, "time_variance", <<12, 48>>))} :
           params \in BridgeParams}

MixerParams ==
    {<<>>}
    \cup {<<KV("mixer_rounds", r), KV("amount", a), KV("mixer_delay", tv)>> :
            r \in {-1, 0, 1, 2}, a \in {Dec(10, 0), Dec(5000, -1)},
            tv \in {<<24, 72>>, <<-6, -1>>}}
MixerCalls ==
    UNION {{MotifCall("MixerObfuscation", e, params,
                      [NoDraws EXCEPT !.hours = h, !.final_hours = fh]) :
                e \in Endpoints,
                h \in HourDraws(DictGet(params, "mixer_delay", <<24, 72>>)),
                fh \in {1, 6}} :
           params \in MixerParams}

WashParams ==
    {<<KV("wash_rounds", r), KV("amount", a), KV("time_variance", tv)>> :
        r \in {-1, 0, 1, 2, 3}, a \in {Dec(1000, -1), Dec(0, 0)},
        tv \in {<<6, 24>>, <<-6, -1>>}}
WashCalls ==
    UNION {{MotifCall("NFTWashTrading", e, params, [NoDraws EXCEPT !.hours = h]) :
                e \in Endpoints,
                h \in HourDraws(DictGet(params, "time_variance", <<6, 24>>))} :
           params \in WashParams}

DormancyParams ==
    {<<>>}
    \cup {<<KV("cooling_period_days", cp), KV("amount", a)>> :
            cp \in {<<30, 90>>, <<0, 0>>, <<-2, -1>>, <<5, 3>>},
            a \in {Dec(100, -1), Dec(0, 0)}}
DormancyCalls ==
    UNION {{MotifCall("DormancyCooling", e, params,
                      [NoDraws EXCEPT !.days = d, !.elapsed = el]) :
                e \in Endpoints,
                d \in {DictGet(params, "cooling_period_days", <<30, 90>>)[1],
                       DictGet(params, "cooling_period_days", <<30, 90>>)[2]},
                el \in {0, 1}} :
           params \in DormancyParams}

TrapParams ==
    {<<>>}
    \cup {<<KV("pattern_type", pt), KV("amount", a)>> :
            pt \in {"high_frequency_trading", "legitimate_transfer"},
            a \in {Dec(500, -1), Dec(9, 0), Dec(0, 0)}}
TrapCalls ==
    {MotifCall("FalsePositiveTrap", e, params, NoDraws) :
        e \in Endpoints, params \in TrapParams}

MotifCalls ==
    PeelCalls \cup BridgeCalls \cup MixerCalls \cup WashCalls \cup DormancyCalls
    \cup TrapCalls

InitMotif == InitScenario /\ hash_seed = 0 /\ args \in MotifCalls

\* motif.generate_subgraph(source_wallet, target_wallet, asset, params)
GenerateSubgraph ==
    /\ args.kind = "motif"
    /\ output.kind = "none"
    /\ output' = generate_subgraph(args)
    /\ UNCHANGED <<scenario, twin, result, calls, pre, merged, first_attr,
                   last_role, first_seen, all_returned, relation, hash_seed, args>>

SpecMotif == InitMotif /\ [][GenerateSubgraph]_vars

(***************************************************************************)
(* Claims about one Scenario, checked under Spec.                          *)
(***************************************************************************)
EdgeTransactions(s) ==
    {edges(s.transaction_graph)[i].data.transaction :
        i \in 1..Len(edges(s.transaction_graph))}

LastMergeReturned == result.op = "add_transactions" /\ ~result.raised

\* C1: after add_transactions calls that returned, the stored scenario_hash
\* is the value compute_integrity_hash gives for the scenario as it now is.
C1_HashConsistent ==
    ((calls > 0 /\ all_returned) \/ LastMergeReturned)
        => scenario.scenario_hash = <<compute_integrity_hash(scenario)>>

C1_Witness ==
    /\ calls >= 2 /\ all_returned
    /\ Len(edges(scenario.transaction_graph)) >= 2
    /\ Len(scenario.aml_weaknesses) = 3
    /\ scenario.scenario_hash # pre.scenario_hash

\* C2: after merges that all returned and whose transactions have pairwise
\* distinct tx ids, every merged transaction is an edge of the graph: as
\* many edges as merged transactions, none removed or replaced by a later
\* insertion.
C2_EveryTransactionIsAnEdge ==
    (all_returned /\ \A t, u \in merged : t.tx_id = u.tx_id => t = u)
        => /\ Len(edges(scenario.transaction_graph)) = Cardinality(merged)
           /\ merged \subseteq EdgeTransactions(scenario)

\* C3: after merges that all returned, a node keeps the wallet and role
\* attributes that the first merge introducing its address recorded.
C3_FirstNodeAttributesWin ==
    all_returned =>
        \A a \in DOMAIN scenario.transaction_graph.attr :
            scenario.transaction_graph.attr[a] = first_attr[a]

\* C4: entity_roles holds exactly the addresses of all merged role mappings,
\* each with the role of the latest merge whose mapping held it, and a merge
\* removes no key.
C4_RolesLastWriteWins ==
    /\ all_returned =>
          /\ DictKeys(scenario.entity_roles) = DOMAIN last_role
          /\ Cardinality(DictKeys(scenario.entity_roles)) = Len(scenario.entity_roles)
          /\ \A a \in DOMAIN last_role :
                DictGet(scenario.entity_roles, a, "unknown") = last_role[a]
    /\ DictKeys(pre.entity_roles) \subseteq DictKeys(scenario.entity_roles)

C4_Witness ==
    /\ all_returned /\ calls >= 2
    /\ \E a, b \in DictKeys(pre.entity_roles) :
          /\ DictGet(scenario.entity_roles, a, "unknown")
                # DictGet(pre.entity_roles, a, "unknown")
          /\ DictGet(scenario.entity_roles, b, "unknown")
                = DictGet(pre.entity_roles, b, "unknown")
    /\ DictKeys(scenario.entity_roles) # DictKeys(pre.entity_roles)

\* C5: aml_weaknesses holds every merged label once, in order of first
\* appearance.
C5_WeaknessesInFirstAppearanceOrder ==
    all_returned =>
        /\ scenario.aml_weaknesses = first_seen
        /\ \A i, j \in 1..Len(scenario.aml_weaknesses) :
              scenario.aml_weaknesses[i] = scenario.aml_weaknesses[j] => i = j

C5_Witness ==
    /\ all_returned /\ calls >= 2
    /\ scenario.aml_weaknesses =
          <<"Transaction clustering gaps", "Small amount thresholds bypass",
            "Temporal pattern obfuscation">>
    /\ pre.aml_weaknesses =
          <<"Transaction clustering gaps", "Small amount thresholds bypass">>

\* C6: an add_transactions call that raises leaves the scenario (graph,
\* role mapping, weakness list, stored hash) as it was before the call.
C6_MergeAllOrNothing ==
    (result.op = "add_transactions" /\ result.raised) => scenario = pre

(***************************************************************************)
(* Claims about the integrity hashes of two Scenarios.                     *)
(***************************************************************************)
\* C7: two Scenarios constructed alike and built by the same sequence of
\* merges with identical transaction content (tx ids, endpoint addresses,
\* amounts, asset symbols, timestamps, roles, weaknesses) hold the same
\* integrity hash after every merge.  Checked under SpecTwin.
C7_SameContentSameHash ==
    calls > 0 =>
        /\ scenario.scenario_hash # <<>>
        /\ scenario.scenario_hash = twin.scenario_hash

C7_Witness ==
    /\ calls >= 2
    /\ Len(edges(scenario.transaction_graph)) >= 2
    /\ EdgeTransactions(scenario) \cap EdgeTransactions(twin) = {}
    /\ scenario.scenario_hash = twin.scenario_hash

\* C8: when exactly one merged transaction has another amount in the second
\* Scenario, or the second Scenario was given one more weakness label, the
\* two integrity hashes differ.  Checked under SpecSens.
C8_HashSensitive ==
    relation.kind \in {"amount", "weakness"}
        => scenario.scenario_hash # twin.scenario_hash

\* C9: two merges with pairwise distinct tx ids, disjoint role keys and
\* disjoint ordered wallet pairs give the same integrity hash in either
\* order.  Checked under SpecOrder.
C9_MergeOrderIrrelevant ==
    relation.kind = "swapped" =>
        /\ scenario.scenario_hash # <<>>
        /\ scenario.scenario_hash = twin.scenario_hash

C9_Witness ==
    /\ relation.kind = "swapped"
    /\ scenario.entity_roles # twin.entity_roles
    /\ scenario.aml_weaknesses # twin.aml_weaknesses
    /\ edges(scenario.transaction_graph) # edges(twin.transaction_graph)
    /\ Len(edges(scenario.transaction_graph)) >= 2
    /\ scenario.scenario_hash = twin.scenario_hash

\* C10 as stated: validate() before any merge reports ok = False with
\* exactly 4 errors.
C10_ValidateEmptyFourErrors ==
    (result.op = "validate" /\ calls = 0)
        => (~result.ok /\ Len(result.errors) = 4)

\* C10 amended: validate() before any merge reports ok = False with exactly
\* 3 errors: empty graph, no entity roles, no AML weaknesses.
C10_ValidateEmptyThreeErrors ==
    (result.op = "validate" /\ calls = 0)
        => /\ ~result.ok
           /\ result.errors = << <<"Scenario graph is empty">>,
                                 <<"No entity roles defined">>,
                                 <<"No AML weaknesses identified">> >>

C10_Witness == result.op = "validate" /\ calls = 0

\* C11: validate() never raises and never mutates state: every call returns a
\* report, and graph, role mapping, weakness list, motif names and stored
\* hash are the same after the call as before it.
C11_ValidateReturnsAndLeavesState ==
    [][result'.op = "validate" => (~result'.raised /\ scenario' = scenario)]_vars

\* The edges whose transaction is stamped later than the clock.
FutureEdges(s, now) ==
    LET es == edges(s.transaction_graph)
    IN {i \in 1..Len(es) : es[i].data.transaction.timestamp.hours > now}

\* The number of errors the four rules of validate call for.
ViolatedRules(s, now) ==
    (IF number_of_nodes(s.transaction_graph) = 0 THEN 1 ELSE 0)
    + Cardinality(FutureEdges(s, now))
    + (IF Len(s.entity_roles) = 0 THEN 1 ELSE 0)
    + (IF Len(s.aml_weaknesses) = 0 THEN 1 ELSE 0)

\* C12: validate() returns ok = True exactly when the graph has a node, no
\* edge transaction is stamped later than the clock, and the role mapping
\* and the weakness list are non-empty; otherwise it returns ok = False and
\* one error per violated rule, one for every future-dated edge transaction.
C12_ValidateReport ==
    result.op = "validate" =>
        /\ ~result.raised
        /\ result.ok <=> (ViolatedRules(scenario, result.now) = 0)
        /\ Len(result.errors) = ViolatedRules(scenario, result.now)

\* C13: get_risk_summary() on a graph without edges does not raise and
\* returns total_transactions 0, entities_involved 0, time_span_days 0,
\* total_amount "0" and empty asset and chain collections.
C13_SummaryOfEmptyGraph ==
    (result.op = "get_risk_summary" /\ edges(scenario.transaction_graph) = <<>>)
        => /\ ~result.raised
           /\ DictGet(result.summary, "total_transactions", -1) = 0
           /\ DictGet(result.summary, "entities_involved", -1) = 0
           /\ DictGet(result.summary, "time_span_days", Dec(-1, 0)).coef = 0
           /\ DictGet(result.summary, "total_amount", <<>>) = <<"0">>
           /\ DictGet(result.summary, "unique_assets", <<"missing">>) = <<>>
           /\ DictGet(result.summary, "unique_chains", <<"missing">>) = <<>>

\* a summary taken after a merge that added roles and weaknesses but no edge
C13_Witness ==
    /\ result.op = "get_risk_summary"
    /\ edges(scenario.transaction_graph) = <<>>
    /\ calls > 0
    /\ Len(scenario.aml_weaknesses) > 0
    /\ ~result.raised

\* C14: on a graph without edges get_risk_summary() still reports the
\* weakness count and the motif-name list, as it does on a graph with edges.
C14_SummaryFieldsOnEmptyGraph ==
    (result.op = "get_risk_summary" /\ edges(scenario.transaction_graph) = <<>>)
        => /\ ~result.raised
           /\ {"aml_weaknesses_count", "motifs_used"} \subseteq DictKeys(result.summary)
           /\ DictGet(result.summary, "aml_weaknesses_count", -1)
                  = Len(scenario.aml_weaknesses)

\* C15: get_risk_summary() changes no scenario state, and a second call with
\* no merge in between has the outcome of the first.
C15_SummaryRepeatable ==
    [][result'.op = "get_risk_summary" =>
          /\ scenario' = scenario
          /\ result.op = "get_risk_summary" =>
                 /\ result'.raised = result.raised
                 /\ result'.summary = result.summary]_vars

\* a second summary in a row of a graph with two edges on two chains
C15_Witness ==
    /\ result.op = "get_risk_summary"
    /\ result.nth = 2
    /\ ~result.raised
    /\ Len(DictGet(result.summary, "unique_chains", <<>>)) = 2
    /\ scenario.scenario_hash # <<>>

\* C16: constructing a Transaction fails exactly when amount <= 0, or
\* fee < 0, or the from-wallet's chain or the to-wallet's chain differs from
\* the asset's chain; otherwise it succeeds, and the Transaction made has
\* matching chains, amount > 0 and fee >= 0.  Checked under SpecTx.
C16_ConstructionFailsExactlyOnBadFields ==
    (args.kind = "Transaction" /\ output.kind # "none") =>
        LET t == args.tx
            bad == \/ t.amount.coef <= 0
                   \/ t.fee.coef < 0
                   \/ t.from_wallet.chain # t.asset.chain
                   \/ t.to_wallet.chain # t.asset.chain
        IN /\ (output.kind = "raised") <=> bad
           /\ (output.kind = "returned") <=> ~bad
           /\ output.kind = "returned" =>
                 /\ output.tx = t
                 /\ output.tx.from_wallet.chain = output.tx.asset.chain
                 /\ output.tx.to_wallet.chain = output.tx.asset.chain
                 /\ output.tx.amount.coef > 0
                 /\ output.tx.fee.coef >= 0

\* a construction refused for the to-wallet's chain alone
\* C18: every transaction a motif returns has its from-wallet, its
\* to-wallet and its asset on one chain.  Checked under SpecMotif.
C18_ReturnedChainsMatch ==
    output.kind = "returned" =>
        \A i \in 1..Len(output.transactions) :
            LET t == output.transactions[i]
            IN /\ t.from_wallet.chain = t.asset.chain
               /\ t.to_wallet.chain = t.asset.chain

\* a bridge over two chains that returned three hops
C18_Witness ==
    /\ output.kind = "returned"
    /\ args.motif = "CrossChainBridge"
    /\ Len(output.transactions) = 3

\* C19: the timestamps of the transactions a motif returns are
\* non-decreasing in the order returned.  Checked under SpecMotif.
C19_TimestampsNonDecreasing ==
    output.kind = "returned" =>
        \A i \in 1..(Len(output.transactions) - 1) :
            MinuteOf(output.transactions[i].timestamp)
                <= MinuteOf(output.transactions[i + 1].timestamp)

\* C20: Peel Chain with depth d >= 1 and total amount a returns exactly d
\* transactions forming one path from the source through d - 1 fresh
\* intermediate wallets to the target, each of amount a / d, and a role
\* mapping that holds the source as 'source', the target as 'destination'
\* and exactly d - 1 entries 'intermediate_peel'.  Checked under SpecMotif.
C20_PeelChainShape ==
    (/\ args.kind = "motif"
     /\ args.motif = "PeelChain"
     /\ DictGet(args.params, "depth", 5) >= 1
     /\ output.kind = "returned") =>
        LET d == DictGet(args.params, "depth", 5)
            a == DictGet(args.params, "amount", Dec(100, -1))
            txs == output.transactions
            roles == output.entity_roles
            inter == {txs[i].to_wallet.address : i \in 1..(Len(txs) - 1)}
        IN /\ Len(txs) = d
           /\ txs[1].from_wallet = args.source
           /\ txs[d].to_wallet = args.target
           /\ \A i \in 1..(d - 1) : txs[i].to_wallet = txs[i + 1].from_wallet
           /\ Cardinality(inter) = d - 1
           /\ inter \cap {args.source.address, args.target.address} = {}
           /\ \A i \in 1..d : DecEq(DecMul(txs[i].amount, Dec(d, 0)), a)
           /\ DictGet(roles, args.source.address, "unknown") = "source"
           /\ DictGet(roles, args.target.address, "unknown") = "destination"
           /\ Cardinality({i \in 1..Len(roles) : roles[i].v = "intermediate_peel"})
                  = d - 1
           /\ Len(roles) = d + 1

C16_Witness ==
    /\ args.kind = "Transaction"
    /\ output.kind = "raised"
    /\ args.tx.amount.coef > 0
    /\ args.tx.fee.coef >= 0
    /\ args.tx.from_wallet.chain = args.tx.asset.chain
    /\ args.tx.to_wallet.chain # args.tx.asset.chain

\* The (address, chain) pairs of the wallets of the merged transactions.
MergedWallets == UNION {{t.from_wallet, t.to_wallet} : t \in merged}

\* C17: the graph nodes correspond one-to-one to the distinct (address,
\* chain) pairs of the wallets of the merged transactions: the same address
\* on two chains is two nodes.  Stated for scenarios all of whose merges
\* returned.
C17_NodesFollowWalletIdentity ==
    all_returned =>
        number_of_nodes(scenario.transaction_graph) = Cardinality(MergedWallets)

\* C21: Mixer Obfuscation with r >= 0 rounds and amount a returns exactly
\* 2r + 1 transactions, an entry and an exit per round and then one final hop
\* from the last exit wallet to the target, and the final hop's amount equals
\* a - a * 0.03 * r.  Checked under SpecMotif.
C21_MixerShapeAndFinalAmount ==
    (/\ args.kind = "motif"
     /\ args.motif = "MixerObfuscation"
     /\ DictGet(args.params, "mixer_rounds", 3) >= 0
     /\ output.kind = "returned") =>
        LET r == DictGet(args.params, "mixer_rounds", 3)
            a == DictGet(args.params, "amount", Dec(100, -1))
            txs == output.transactions
        IN /\ Len(txs) = 2 * r + 1
           /\ txs[1].from_wallet = args.source
           /\ \A i \in 0..(r - 1) :
                 /\ txs[2 * i + 1].tx_id = <<"mixer_entry_", i>>
                 /\ txs[2 * i + 2].tx_id = <<"mixer_exit_", i>>
                 /\ txs[2 * i + 1].to_wallet = txs[2 * i + 2].from_wallet
                 /\ txs[2 * i + 2].to_wallet = txs[2 * i + 3].from_wallet
                 /\ DictGet(output.entity_roles, txs[2 * i + 1].to_wallet.address,
                            "unknown") = MixerEntry[i + 1]
                 /\ DictGet(output.entity_roles, txs[2 * i + 2].to_wallet.address,
                            "unknown") = MixerExit[i + 1]
           /\ txs[2 * r + 1].to_wallet = args.target
           \* 100 * final = a * (100 - 3r)
           /\ DecEq(DecMul(txs[2 * r + 1].amount, Dec(100, 0)),
                    DecMul(a, Dec(100 - 3 * r, 0)))

\* two rounds over amount 10 returned five hops, the last carrying 9.4
C21_Witness ==
    /\ args.kind = "motif"
    /\ args.motif = "MixerObfuscation"
    /\ DictGet(args.params, "mixer_rounds", 3) = 2
    /\ DictGet(args.params, "amount", Dec(100, -1)) = Dec(10, 0)
    /\ output.kind = "returned"
    /\ Len(output.transactions) = 5
    /\ DecEq(output.transactions[5].amount, Dec(94, -1))

\* C22: Cross-Chain Bridge given n >= 1 bridge chains returns n + 1
\* transactions, a linear chain source -> bridge_0 -> ... -> bridge_(n-1) ->
\* target in which bridge wallet i is on the i-th configured chain and every
\* hop carries the same amount, and given no bridge chains a single direct
\* hop; for any configured bridge chains, on the asset's chain or not.
\* Stated for a positive amount and a source and a target on the asset's
\* chain.  Checked under SpecMotif.
C22_BridgeShapeForAnyChains ==
    (/\ args.kind = "motif"
     /\ args.motif = "CrossChainBridge"
     /\ args.source.chain = args.asset.chain
     /\ args.target.chain = args.asset.chain
     /\ DictGet(args.params, "amount", Dec(100, -1)).coef > 0
     /\ output.kind # "none") =>
        LET bridge_chains == DictGet(args.params, "bridge_chains", <<>>)
            n == Len(bridge_chains)
            a == DictGet(args.params, "amount", Dec(100, -1))
            txs == output.transactions
        IN /\ output.kind = "returned"
           /\ Len(txs) = n + 1
           /\ txs[1].from_wallet = args.source
           /\ txs[n + 1].to_wallet = args.target
           /\ \A i \in 1..n :
                 /\ txs[i].to_wallet = txs[i + 1].from_wallet
                 /\ txs[i].to_wallet.chain = bridge_chains[i]
           /\ \A i \in 1..(n + 1) : txs[i].amount = a

\* C23: False Positive Trap with pattern type 'high_frequency_trading'
\* returns exactly 10 transactions between source and target alone,
\* alternating direction starting source -> target, each of amount a / 10
\* (summing to a), consecutive timestamps exactly 5 minutes apart; with any
\* other pattern type it returns exactly one transaction source -> target of
\* amount a.  Checked under SpecMotif.
C23_TrapShape ==
    (/\ args.kind = "motif"
     /\ args.motif = "FalsePositiveTrap"
     /\ output.kind = "returned") =>
        LET a == DictGet(args.params, "amount", Dec(100, -1))
            txs == output.transactions
        IN IF DictGet(args.params, "pattern_type", "high_frequency_trading")
                  = "high_frequency_trading"
           THEN /\ Len(txs) = 10
                /\ \A i \in 1..10 :
                      /\ txs[i].from_wallet
                             = (IF i % 2 = 1 THEN args.source ELSE args.target)
                      /\ txs[i].to_wallet
                             = (IF i % 2 = 1 THEN args.target ELSE args.source)
                      /\ DecEq(DecMul(txs[i].amount, Dec(10, 0)), a)
                /\ DecEq(SumAmounts(txs, 1), a)
                /\ \A i \in 1..9 :
                      MinuteOf(txs[i + 1].timestamp)
                          = MinuteOf(txs[i].timestamp) + 5
           ELSE /\ Len(txs) = 1
                /\ txs[1].from_wallet = args.source
                /\ txs[1].to_wallet = args.target
                /\ txs[1].amount = a

\* ten trades of 0.9 between two different wallets, the second one running
\* target -> source
C23_Witness ==
    /\ args.kind = "motif"
    /\ args.motif = "FalsePositiveTrap"
    /\ output.kind = "returned"
    /\ Len(output.transactions) = 10
    /\ args.source # args.target
    /\ output.transactions[2].from_wallet = args.target
    /\ DecEq(output.transactions[2].amount, Dec(9, -1))

\* Whether the amount x the motif computed as b * Decimal(1.1) ** pow is the
\* number b * 1.10^i.  Decimal(1.1) is the Decimal of the float 1.1, which
\* exceeds 1.10 by 8.9e-17, and the 28-digit context keeps that excess in
\* every power and product (100.0 * Decimal(1.1) ** 1 is
\* 110.0000000000000088817841970), so the two agree only where no factor
\* Decimal(1.1) enters or b is zero.
CarriesTimesTenths(x, b, i) ==
    /\ x = TimesPow(b, i)
    /\ i = 0 \/ b.coef = 0

\* x < y for two amounts of one positive base: the larger power is larger.
WashLess(x, y) ==
    /\ x.coef = y.coef /\ x.exp = y.exp /\ x.coef > 0
    /\ x.pow < y.pow

\* C24: NFT Wash Trading with r >= 0 rounds and base amount b > 0 returns
\* exactly r + 1 transactions forming one path from source through r fresh
\* intermediaries to target; forward hop i (from 0) carries b * 1.10^i and
\* the final hop b * 1.10^r, so amounts are non-decreasing along the
\* returned order and strictly increasing across the forward hops.  Checked
\* under SpecMotif.
C24_WashShapeAndAmounts ==
    (/\ args.kind = "motif"
     /\ args.motif = "NFTWashTrading"
     /\ DictGet(args.params, "wash_rounds", 5) >= 0
     /\ DictGet(args.params, "amount", Dec(50, -1)).coef > 0
     /\ output.kind = "returned") =>
        LET r == DictGet(args.params, "wash_rounds", 5)
            b == DictGet(args.params, "amount", Dec(50, -1))
            txs == output.transactions
            inter == {txs[i].to_wallet.address : i \in 1..(Len(txs) - 1)}
        IN /\ Len(txs) = r + 1
           /\ txs[1].from_wallet = args.source
           /\ txs[r + 1].to_wallet = args.target
           /\ \A i \in 1..r : txs[i].to_wallet = txs[i + 1].from_wallet
           /\ Cardinality(inter) = r
           /\ inter \cap {args.source.address, args.target.address} = {}
           /\ \A i \in 0..(r - 1) : CarriesTimesTenths(txs[i + 1].amount, b, i)
           /\ CarriesTimesTenths(txs[r + 1].amount, b, r)
           /\ \A i \in 1..(r - 1) : WashLess(txs[i].amount, txs[i + 1].amount)
           /\ \A i \in 1..r :
                 txs[i].amount = txs[i + 1].amount
                 \/ WashLess(txs[i].amount, txs[i + 1].amount)

\* The two hops of Dormancy Cooling: source -> cooling wallet -> target,
\* both of the unchanged amount, the first stamped at generation time.
CoolingHops ==
    LET txs == output.transactions
    IN /\ Len(txs) = 2
       /\ txs[1].from_wallet = args.source
       /\ txs[1].to_wallet = txs[2].from_wallet
       /\ txs[2].to_wallet = args.target
       /\ DictGet(output.entity_roles, txs[1].to_wallet.address, "unknown")
              = "cooling_wallet"
       /\ txs[1].amount = DictGet(args.params, "amount", Dec(100, -1))
       /\ txs[2].amount = DictGet(args.params, "amount", Dec(100, -1))
       /\ MinuteOf(txs[1].timestamp) = args.now

\* The minutes between the two hops less gap are a whole number of days
\* within the configured range, both ends included.
CoolingDaysApart(gap) ==
    LET cooling_period_days == DictGet(args.params, "cooling_period_days", <<30, 90>>)
        apart == MinuteOf(output.transactions[2].timestamp)
                     - MinuteOf(output.transactions[1].timestamp) - gap
    IN \E k \in cooling_period_days[1]..cooling_period_days[2] :
           apart = k * 24 * 60

\* C25 as stated: Dormancy Cooling returns exactly two transactions, source
\* -> cooling wallet -> target, both carrying the unchanged amount, the
\* first stamped at generation time and the second later by a whole number
\* of days drawn from the cooling_period_days range, bounds included.
C25_SecondHopWholeDaysLater ==
    (/\ args.kind = "motif"
     /\ args.motif = "DormancyCooling"
     /\ output.kind = "returned") =>
        CoolingHops /\ CoolingDaysApart(0)

\* C25, amended: the second hop is stamped a whole number of days, drawn
\* from the range with both bounds included, after a second reading of the
\* clock, so the two timestamps are that many days plus the time between the
\* two readings apart.  Checked under SpecMotif.
C25_SecondHopDaysAfterSecondReading ==
    (/\ args.kind = "motif"
     /\ args.motif = "DormancyCooling"
     /\ output.kind = "returned") =>
        CoolingHops /\ CoolingDaysApart(args.draws.elapsed)

\* a withdrawal stamped 90 days, the upper bound, after a later reading of
\* the clock
C25_Witness ==
    /\ args.kind = "motif"
    /\ args.motif = "DormancyCooling"
    /\ output.kind = "returned"
    /\ args.draws.elapsed = 1
    /\ MinuteOf(output.transactions[2].timestamp)
           = MinuteOf(output.transactions[1].timestamp) + 90 * 24 * 60 + 1

\* C26: for every motif and every source and target wallet, the returned
\* role mapping holds the source address with the source role ('source', or
\* 'legitimate_source' for False Positive Trap) and the target address with
\* the destination role ('destination', or 'legitimate_destination').
\* Checked under SpecMotif.
C26_SourceAndTargetRolesRecorded ==
    (args.kind = "motif" /\ output.kind = "returned") =>
        LET trap == args.motif = "FalsePositiveTrap"
        IN /\ DictGet(output.entity_roles, args.source.address, "unknown")
                  = (IF trap THEN "legitimate_source" ELSE "source")
           /\ DictGet(output.entity_roles, args.target.address, "unknown")
                  = (IF trap THEN "legitimate_destination" ELSE "destination")

\* C27: Peel Chain called with depth <= 0 either fails with a
\* Wallet/Transaction construction error or returns zero transactions, and
\* no other kind of failure occurs.  Checked under SpecMotif.
C27_NonPositiveDepthFailsInConstruction ==
    (/\ args.kind = "motif"
     /\ args.motif = "PeelChain"
     /\ DictGet(args.params, "depth", 5) <= 0
     /\ output.kind # "none") =>
        \/ output.kind = "raised" /\ output.error = "ValueError"
        \/ output.kind = "returned" /\ Len(output.transactions) = 0

\* C28: in Mixer Obfuscation the amount is carried and reduced round by
\* round: each round's exit amount is 97% of its entry amount, and the entry
\* amount of round i + 1 equals the exit amount of round i.  Checked under
\* SpecMotif.
C28_MixerAmountCarriedAcrossRounds ==
    (/\ args.kind = "motif"
     /\ args.motif = "MixerObfuscation"
     /\ output.kind = "returned") =>
        LET r == DictGet(args.params, "mixer_rounds", 3)
            txs == output.transactions
        IN /\ \A i \in 0..(r - 1) :
                 DecEq(DecMul(txs[2 * i + 2].amount, Dec(100, 0)),
                       DecMul(txs[2 * i + 1].amount, Dec(97, 0)))
           /\ \A i \in 0..(r - 2) :
                 DecEq(txs[2 * i + 3].amount, txs[2 * i + 2].amount)

\* C29: after any sequence of merges, for every graph node whose address is
\* a key of entity_roles, the node's stored role attribute equals
\* entity_roles[address].  Stated for scenarios all of whose merges
\* returned.
C29_NodeRoleAgreesWithMapping ==
    all_returned =>
        \A n \in DOMAIN scenario.transaction_graph.attr :
            n \in DictKeys(scenario.entity_roles) =>
                scenario.transaction_graph.attr[n].role
                    = DictGet(scenario.entity_roles, n, "unknown")

\* The node set and the edge set (with the edge data) of a Scenario's graph.
NodeSet(s) == {s.transaction_graph.node[i] : i \in 1..Len(s.transaction_graph.node)}
EdgeSet(s) ==
    LET es == edges(s.transaction_graph)
    IN {es[i] : i \in 1..Len(es)}

\* C30: calling add_transactions twice in a row with the same
\* (transactions, roles, weaknesses) triple leaves the node set, edge set,
\* role mapping, weakness list and integrity hash identical to the state
\* after the first call.  Checked under SpecRepeat, where pre is the state
\* before the last call.
C30_MergeIdempotent ==
    relation.kind = "again" =>
        /\ NodeSet(scenario) = NodeSet(pre)
        /\ EdgeSet(scenario) = EdgeSet(pre)
        /\ scenario.entity_roles = pre.entity_roles
        /\ scenario.aml_weaknesses = pre.aml_weaknesses
        /\ scenario.scenario_hash = pre.scenario_hash

\* a triple with two transactions over one pair and a repeated weakness,
\* merged twice in a row after another merge
C30_Witness ==
    /\ relation.kind = "again"
    /\ calls = 3
    /\ ~result.raised
    /\ Len(relation.pending.transactions) = 2
    /\ scenario.aml_weaknesses # <<>>
    /\ Cardinality(EdgeSet(scenario)) >= 1

====
